---- MODULE Spec2Model ----
(***************************************************************************)
(* Model of vfh_star: the traversability map generator                     *)
(* (TraversabilityMapGenerator: addLaserScan, computeNewMap, the region    *)
(* stamps) and the best-first tree search declared in TreeSearch.h.        *)
(*                                                                         *)
(* Lengths and heights are integers in millimetres, angles in degrees.     *)
(***************************************************************************)
EXTENDS Integers, Sequences, FiniteSets, TLC

VARIABLES
    laserGrid,          \* ElevationGrid filled by the scans: [pos, cells]
    interpolatedGrid,   \* ElevationGrid written by smoothElevationGrid
    traversabilityGrid, \* TraversabilityGrid: [pos, cells]
    lastBody2Odo,       \* reference body pose of addLaserScan
    lastLaser2Odo,      \* reference laser pose of addLaserScan
    boundarySize,
    maxStepSize,
    op,                 \* the operation that ran last, with its inputs and outcome
    accepted,           \* history: the poses of the last addLaserScan that returned true
    nCalls,             \* history: number of calls that fed the generator so far
    conf,               \* TreeSearchConf and the oracles of the search
    tree,               \* Tree: the nodes in the order they were added
    expandCandidates,   \* the queue of node indices, least heuristic cost first
    popped,             \* history: the heuristic costs of the nodes popped
    goals,              \* indices of the terminal nodes popped
    pc,                 \* where getWaypoints is: "idle", "loop" or "done"
    result              \* the poses of the trajectory returned

mapVars == <<laserGrid, interpolatedGrid, traversabilityGrid, lastBody2Odo,
             lastLaser2Odo, boundarySize, maxStepSize, op, accepted, nCalls>>

planVars == <<conf, tree, expandCandidates, popped, goals, pc, result>>

vars == <<mapVars, planVars>>

----------------------------------------------------------------------------
(* Bounds of the model *)

\* height measurements fed into the elevation grid in one run
MaxMeasurements == 2

\* the cell indices along one side of the (square) grids: the smallest grid
\* with an inner cell, border cells and corner cells
GridCoords == 0 .. 2
GridSize == Cardinality(GridCoords)

(* Program constants *)

\* -std::numeric_limits<double>::max(), the "no data" value of a maximum
NoData == -1000000
\* maxStepSize set by the constructor (0.2 m)
DefaultMaxStepSize == 200

\* heights a measurement can have; they differ by exactly the default step
\* size and by more than the other one
HeightSet == {0, 200}
\* values given to setMaxStepSize
StepSizeSet == {100, 200}

----------------------------------------------------------------------------
(* Arithmetic helpers *)

Abs(a) == IF a < 0 THEN -a ELSE a
Min2(a, b) == IF a < b THEN a ELSE b
Max2(a, b) == IF a > b THEN a ELSE b

\* the sequence s with v inserted before the first element greater than v
RECURSIVE SortedInsert(_, _)
SortedInsert(s, v) ==
    IF s = <<>> THEN <<v>>
    ELSE IF v <= Head(s) THEN <<v>> \o s
    ELSE <<Head(s)>> \o SortedInsert(Tail(s), v)

----------------------------------------------------------------------------
(* ElevationEntry *)

\* the heights are kept sorted: only their multiset matters to the median
EmptyEntry ==
    [count |-> 0, min |-> -NoData, max |-> NoData, median |-> 0,
     interpolated |-> FALSE, heights |-> <<>>]

MedianOf(hs) == hs[(Len(hs) \div 2) + 1]

addHeightMeasurement(e, h) ==
    LET hs == SortedInsert(e.heights, h)
    IN [count |-> e.count + 1,
        min |-> Min2(e.min, h),
        max |-> Max2(e.max, h),
        median |-> MedianOf(hs),
        interpolated |-> FALSE,
        heights |-> hs]

setInterpolatedMeasurement(e, h) ==
    [e EXCEPT !.median = h, !.interpolated = TRUE]

\* an entry without a measurement whose maximum is known
CeilingEntry(lo, hi) ==
    [count |-> 0, min |-> lo, max |-> hi, median |-> lo,
     interpolated |-> FALSE, heights |-> <<>>]

----------------------------------------------------------------------------
(* Grid *)

Cells == GridCoords \X GridCoords

inGrid(x, y) == x \in GridCoords /\ y \in GridCoords

Traversability == {"UNCLASSIFIED", "TRAVERSABLE", "OBSTACLE", "UNKNOWN_OBSTACLE"}

EmptyElevationCells == [c \in Cells |-> EmptyEntry]
EmptyTraversabilityCells == [c \in Cells |-> "UNCLASSIFIED"]

\* the offsets of the 3x3 window in the order of the loops over x, then y
Window == << <<-1, -1>>, <<-1, 0>>, <<-1, 1>>,
             << 0, -1>>, << 0, 0>>, << 0, 1>>,
             << 1, -1>>, << 1, 0>>, << 1, 1>> >>

----------------------------------------------------------------------------
(* smoothElevationGrid *)

measured(source, x, y) == inGrid(x, y) /\ source[<<x, y>>].count > 0

\* the two tests of doConservativeInterpolation: rows y-1 and y+1 first,
\* then, when these do not both hold a measurement, the second loop
interpolationFires(source, p) ==
    LET px == p[1]
        py == p[2]
        rowFirst == \E x \in -1 .. 1 : measured(source, px + x, py - 1)
        rowSecond == \E x \in -1 .. 1 : measured(source, px + x, py + 1)
        colFirst == \E y \in -1 .. 1 : measured(source, px - 1, py + y)
        colSecond == \E y \in -1 .. 1 : measured(source, px - 1, px + 1)
    IN IF rowFirst /\ rowSecond THEN TRUE ELSE colFirst /\ colSecond

RECURSIVE addNeighbourMedians(_, _, _, _)
addNeighbourMedians(source, p, e, i) ==
    IF i > Len(Window) THEN e
    ELSE LET rx == p[1] + Window[i][1]
             ry == p[2] + Window[i][2]
         IN addNeighbourMedians(source, p,
                IF measured(source, rx, ry)
                THEN addHeightMeasurement(e, source[<<rx, ry>>].median)
                ELSE e,
                i + 1)

doConservativeInterpolation(source, p) ==
    IF source[p].count > 0 THEN source[p]
    ELSE IF interpolationFires(source, p)
    THEN LET e == addNeighbourMedians(source, p, source[p], 1)
         IN setInterpolatedMeasurement(e, e.median)
    ELSE source[p]

smoothElevationGrid(source) ==
    [pos |-> source.pos,
     cells |-> [p \in Cells |-> doConservativeInterpolation(source.cells, p)]]

----------------------------------------------------------------------------
(* updateTraversabilityGrid *)

\* the neighbour's height takes part in the step test
usable(n) == n.count > 0 \/ n.max # NoData

neighbourHeight(n) == IF n.count > 0 THEN n.median ELSE n.min

\* the step test with >= for >
stepTooHigh_ge(nh, curHeight, step) == Abs(nh - curHeight) >= step

\* the step between two heights is more than the robot can take
stepTooHigh(nh, curHeight, step) == Abs(nh - curHeight) > step

testNeighbourEntry(p, elGrid, step) ==
    LET entry == elGrid[p]
        curHeight == IF entry.count = 0 THEN entry.max ELSE entry.median
        cl == IF entry.count = 0 THEN "UNKNOWN_OBSTACLE" ELSE "TRAVERSABLE"
        obstacle ==
            \E i \in 1 .. Len(Window) :
                LET rx == p[1] + Window[i][1]
                    ry == p[2] + Window[i][2]
                IN /\ inGrid(rx, ry)
                   /\ usable(elGrid[<<rx, ry>>])
                   /\ stepTooHigh(neighbourHeight(elGrid[<<rx, ry>>]), curHeight, step)
    IN IF entry.count = 0 /\ entry.max = NoData THEN "UNCLASSIFIED"
       ELSE IF obstacle THEN "OBSTACLE" ELSE cl

updateTraversabilityGrid(elGrid, step) ==
    [pos |-> elGrid.pos,
     cells |-> [p \in Cells |-> testNeighbourEntry(p, elGrid.cells, step)]]

----------------------------------------------------------------------------
(* Transforms                                                              *)
(*                                                                         *)
(* body2Odo is a translation t and a rotation about Z by yaw, a multiple   *)
(* of 90 degrees; laser2Body is a rotation about the laser's X axis by     *)
(* tilt degrees, so laser2Odo = body2Odo * laser2Body is [t, yaw, tilt].   *)

Identity == [t |-> <<0, 0, 0>>, yaw |-> 0, tilt |-> 0]

compose(body2Odo, tilt) == [t |-> body2Odo.t, yaw |-> body2Odo.yaw, tilt |-> tilt]

\* the point b rotated about Z by yaw
rotateZ(yaw, b) ==
    CASE yaw = 0 -> b
      [] yaw = 90 -> <<-b[2], b[1], b[3]>>
      [] yaw = 180 -> <<-b[1], -b[2], b[3]>>
      [] yaw = 270 -> <<b[2], -b[1], b[3]>>

\* a pose applied to a point of its frame
transform(pose, b) ==
    LET r == rotateZ(pose.yaw, b)
    IN <<r[1] + pose.t[1], r[2] + pose.t[2], r[3] + pose.t[3]>>

\* square of the norm of the translation of last.inverse() * cur
distanceSquared(last, cur) ==
    (cur.t[1] - last.t[1]) * (cur.t[1] - last.t[1])
    + (cur.t[2] - last.t[2]) * (cur.t[2] - last.t[2])
    + (cur.t[3] - last.t[3]) * (cur.t[3] - last.t[3])

\* acos of the dot product of the two laser Y axes, in degrees. The Y axis of
\* [yaw, tilt] is Rz(yaw) * (0, cos tilt, sin tilt): with equal yaw the angle
\* is the tilt difference, with opposite yaw 180 minus the tilt sum, and with
\* perpendicular yaw acos(sin t1 * sin t2), which for the tilts used here
\* (at most 6 degrees) is within one degree of 90.
laserChange(last, cur) ==
    LET dyaw == (cur.yaw - last.yaw + 360) % 360
    IN CASE dyaw = 0 -> Abs(cur.tilt - last.tilt)
         [] dyaw = 180 -> 180 - Abs(cur.tilt + last.tilt)
         [] OTHER -> 90

----------------------------------------------------------------------------
(* Grid geometry *)

\* metres per cell, in millimetres
GridResolution == 100

\* floor(a / b) for b > 0
FloorDiv(a, b) == IF a >= 0 THEN a \div b ELSE -((-a + b - 1) \div b)

\* a / b rounded to the nearest integer, halves away from zero, for b > 0
RoundDiv(a, b) ==
    IF a >= 0 THEN (2 * a + b) \div (2 * b) ELSE -((2 * (-a) + b) \div (2 * b))

\* index of the cell of world coordinate w in a grid centred at origin:
\* floor((w - origin) / r + GridSize / 2)
cellIndex(origin, w) ==
    FloorDiv(2 * (w - origin) + GridSize * GridResolution, 2 * GridResolution)

\* getGridPoint: the cell of a world point, <<>> when it is outside the grid
getGridPoint(grid, pw) ==
    LET x == cellIndex(grid.pos[1], pw[1])
        y == cellIndex(grid.pos[2], pw[2])
    IN IF inGrid(x, y) THEN <<x, y>> ELSE <<>>

\* moveGrid: recentre on the point num / den, moving the cells that stay inside
moveGrid(grid, num, den) ==
    LET dx == RoundDiv(num[1] - den * grid.pos[1], den * GridResolution)
        dy == RoundDiv(num[2] - den * grid.pos[2], den * GridResolution)
    IN [pos |-> <<grid.pos[1] + dx * GridResolution,
                  grid.pos[2] + dy * GridResolution>>,
        cells |-> [c \in Cells |->
                      IF inGrid(c[1] + dx, c[2] + dy)
                      THEN grid.cells[<<c[1] + dx, c[2] + dy>>]
                      ELSE EmptyEntry]]

\* the robot is within the boundary of the grid's edge, or outside the grid
nearBoundary(grid, robot, boundary) ==
    \/ 2 * Abs(robot[1] - grid.pos[1]) > GridSize * GridResolution - 2 * boundary
    \/ 2 * Abs(robot[2] - grid.pos[2]) > GridSize * GridResolution - 2 * boundary

outOfGrid(grid, robot) ==
    \/ 2 * Abs(robot[1] - grid.pos[1]) > GridSize * GridResolution
    \/ 2 * Abs(robot[2] - grid.pos[2]) > GridSize * GridResolution

\* the grid after moveGridIfRobotNearBoundary: the new centre is
\* robot + posInGrid * 2 / 3, given here in thirds
moveGridIfRobotNearBoundary(grid, robot, boundary) ==
    IF nearBoundary(grid, robot, boundary)
    THEN LET px == IF outOfGrid(grid, robot) THEN 0 ELSE robot[1] - grid.pos[1]
             py == IF outOfGrid(grid, robot) THEN 0 ELSE robot[2] - grid.pos[2]
         IN moveGrid(grid, <<3 * robot[1] + 2 * px, 3 * robot[2] + 2 * py>>, 3)
    ELSE grid

----------------------------------------------------------------------------
(* addLaserScan *)

\* Eigen's AlignedBox(min, max).contains(p)
contains(lo, hi, p) == \A i \in 1 .. 3 : lo[i] <= p[i] /\ p[i] <= hi[i]

\* the two masked areas, as written: the first corner of leftWheel has the
\* larger x
maskedAreas ==
    << [lo |-> <<285, -215, -180>>, hi |-> <<225, 215, 250>>],
       [lo |-> <<-285, -215, -180>>, hi |-> <<-225, 215, 250>>] >>

isMasked(b) ==
    \E i \in 1 .. Len(maskedAreas) : contains(maskedAreas[i].lo, maskedAreas[i].hi, b)

\* filterLaserScan: the valid beams outside the masked areas, in the odometry
\* frame. A beam is its point in the body frame and its validity.
RECURSIVE filterLaserScan(_, _)
filterLaserScan(scan, body2Odo) ==
    IF scan = <<>> THEN <<>>
    ELSE LET b == Head(scan)
             rest == filterLaserScan(Tail(scan), body2Odo)
         IN IF isMasked(b.p) \/ ~b.valid THEN rest
            ELSE <<transform(body2Odo, b.p)>> \o rest

\* ElevationGrid::addLaserScan: each point inside the grid adds its height
RECURSIVE addPoints(_, _)
addPoints(grid, points) ==
    IF points = <<>> THEN grid
    ELSE LET c == getGridPoint(grid, Head(points))
         IN addPoints(IF c = <<>> THEN grid
                      ELSE [grid EXCEPT !.cells[c] = addHeightMeasurement(@, Head(points)[3])],
                      Tail(points))

DistanceThreshold == 50
AngleThreshold == 5

\* the test of line 231, negated: the scan becomes the new reference
movedEnough(lastBody, lastLaser, body2Odo, laser2Odo) ==
    ~(/\ distanceSquared(lastBody, body2Odo) < DistanceThreshold * DistanceThreshold
      /\ laserChange(lastLaser, laser2Odo) < AngleThreshold)

\* the reference pose when every scan is taken as the new reference
referenceAfter_always(ret, last, cur) == cur

\* the reference pose after the call
referenceAfter(ret, last, cur) == IF ret THEN cur ELSE last

----------------------------------------------------------------------------
(* TreeSearch                                                              *)
(*                                                                         *)
(* The search runs in a layered world: a pose is <<step, lane>>, a heading *)
(* is twice the lane it leads to, odd headings cannot be driven, and a     *)
(* pose is terminal at step GoalDepth. The oracles (getHeuristic,          *)
(* getCostForNode, getNextPossibleDirections) are functions of the pose    *)
(* fixed when the planner is set up. Costs are kept multiplied by          *)
(* CostScale so that the discounted costs stay integers.                   *)

\* steps from the start pose to the goal line
GoalDepth == 2

Lanes == {0, 1}
Poses == {<<0, 0>>} \cup ((1 .. GoalDepth) \X Lanes)
StartPose == <<0, 0>>

HeuristicSet == {0, 1}
CostSet == {0, 1}
\* discount factors, as numerator and denominator
DiscountSet == {<<1, 1>>, <<1, 2>>}
MaxTreeSizeSet == {2, 8}
AngularSamplingSet == {2, 3}
\* which poses get the whole fan of headings: the start pose, or every pose
DirectionModes == {"start", "all"}

RECURSIVE Pow(_, _)
Pow(b, k) == IF k = 0 THEN 1 ELSE b * Pow(b, k - 1)

CostScale == Pow(2, GoalDepth)

\* discountFactor ^ depth, times CostScale
discountAt(discount, depth) ==
    (CostScale * Pow(discount[1], depth)) \div Pow(discount[2], depth)

isTerminalNode(pose) == pose[1] = GoalDepth

\* getNextPossibleDirections: the intervals of headings open at the pose
getNextPossibleDirections(mode, pose) ==
    IF pose = StartPose \/ mode = "all"
    THEN << <<0, 2 * (Cardinality(Lanes) - 1)>> >>
    ELSE << <<2 * pose[2], 2 * pose[2]>> >>

\* getProjectedPose: the pose one step along the heading, and whether the
\* robot can drive there
getProjectedPose(pose, heading) ==
    [pose |-> <<pose[1] + 1, heading \div 2>>, feasible |-> heading % 2 = 0]

\* the angular step between the interior samples of an interval
AngularStep == 1

\* the headings sampled in one interval: both ends and at most
\* angularSampling - 2 evenly spaced headings between them
sampleInterval(a, b, angularSampling) ==
    LET n == Min2(Max2(angularSampling - 2, 0), (b - a) \div AngularStep)
    IN {a, b} \cup {a + (k * (b - a)) \div (n + 1) : k \in 1 .. n}

RECURSIVE SetToSortedSeq(_)
SetToSortedSeq(S) ==
    IF S = {} THEN <<>>
    ELSE LET lo == CHOOSE x \in S : \A y \in S : x <= y
         IN <<lo>> \o SetToSortedSeq(S \ {lo})

\* getDirectionsFromIntervals: the headings of all intervals, without
\* duplicates, in ascending order
getDirectionsFromIntervals(intervals, angularSampling) ==
    SetToSortedSeq(UNION {sampleInterval(intervals[i][1], intervals[i][2], angularSampling) :
                             i \in 1 .. Len(intervals)})

heuristicCost(node) == node.cost + node.heuristic

\* the queue with node index n put at its end, whatever its key
insertCandidate_atEnd(queue, nodes, n) == Append(queue, n)

\* the queue with node index n inserted behind every entry whose key is not
\* greater (first in, first out among equal keys)
RECURSIVE insertCandidate(_, _, _)
insertCandidate(queue, nodes, n) ==
    IF queue = <<>> THEN <<n>>
    ELSE IF heuristicCost(nodes[Head(queue)]) <= heuristicCost(nodes[n])
    THEN <<Head(queue)>> \o insertCandidate(Tail(queue), nodes, n)
    ELSE <<n>> \o queue

\* the child of node index parent along the heading
makeChild(cf, nodes, parent, heading) ==
    LET proj == getProjectedPose(nodes[parent].pose, heading)
    IN [pose |-> proj.pose,
        parent |-> parent,
        depth |-> nodes[parent].depth + 1,
        direction |-> heading,
        cost |-> nodes[parent].cost
                    + discountAt(cf.discountFactor, nodes[parent].depth)
                        * cf.costForNode[proj.pose],
        heuristic |-> CostScale * cf.heuristic[proj.pose],
        isLeaf |-> TRUE]

\* one pass of the loop body over the headings from the i-th on: every
\* feasible child joins the tree and the queue
RECURSIVE expandInto(_, _, _, _, _)
expandInto(cf, st, parent, headings, i) ==
    IF i > Len(headings) THEN st
    ELSE IF ~getProjectedPose(st.nodes[parent].pose, headings[i]).feasible
    THEN expandInto(cf, st, parent, headings, i + 1)
    ELSE LET child == makeChild(cf, st.nodes, parent, headings[i])
             nodes == Append([st.nodes EXCEPT ![parent].isLeaf = FALSE], child)
         IN expandInto(cf,
                       [nodes |-> nodes,
                        queue |-> insertCandidate(st.queue, nodes, Len(nodes))],
                       parent, headings, i + 1)

\* the loop goes on while the queue is not empty and the tree is below its budget
loopCondition(queue, nodes, maxTreeSize) == queue # <<>> /\ Len(nodes) < maxTreeSize

\* buildTrajectoryTo: the poses from the root to node index n
RECURSIVE buildTrajectoryTo(_, _)
buildTrajectoryTo(nodes, n) ==
    IF n = 0 THEN <<>>
    ELSE Append(buildTrajectoryTo(nodes, nodes[n].parent), nodes[n].pose)

\* the node the result leads to: the cheapest recorded goal, else the leaf
\* with the least heuristic cost; 0 when nothing grew from the root
bestNode(nodes, goalSet) ==
    IF goalSet # {}
    THEN CHOOSE g \in goalSet :
             \A o \in goalSet : \/ nodes[g].cost < nodes[o].cost
                                \/ (nodes[g].cost = nodes[o].cost /\ g <= o)
    ELSE IF Len(nodes) = 1 THEN 0
    ELSE LET leaves == {n \in 1 .. Len(nodes) : nodes[n].isLeaf}
         IN CHOOSE l \in leaves :
                \A o \in leaves :
                    \/ heuristicCost(nodes[l]) < heuristicCost(nodes[o])
                    \/ (heuristicCost(nodes[l]) = heuristicCost(nodes[o]) /\ l <= o)

PlanIdle ==
    /\ tree = <<>>
    /\ expandCandidates = <<>>
    /\ popped = <<>>
    /\ goals = {}
    /\ pc = "idle"
    /\ result = <<>>

\* the configuration of a generator that runs no search
NoSearch == [maxTreeSize |-> 0]

----------------------------------------------------------------------------
(* computeNewMap, with the elevation grid as its input                     *)
(*                                                                         *)
(* TerrainSpec feeds the pure part of the pipeline: the elevation grid is  *)
(* drawn with at most one entry that has a maximum and no measurement,     *)
(* measurements are added to it and the step size is set, and then         *)
(* computeNewMap smooths and classifies the grid.                          *)

CeilingKinds ==
    {CeilingEntry(b[1], b[2]) : b \in {b \in HeightSet \X HeightSet : b[1] <= b[2]}}

\* history of addLaserScan: the poses of the last call that returned true,
\* the calls refused since, and the calls refused before it (gap)
NothingAccepted ==
    [valid |-> FALSE, body |-> [t |-> <<0, 0, 0>>, yaw |-> 0], laser |-> Identity,
     refused |-> 0, gap |-> 0]

ConstructedOp == [name |-> "construct", ret |-> FALSE, err |-> "none", args |-> <<>>]

TerrainInit ==
    /\ \E e \in CeilingKinds \cup {EmptyEntry} : \E c \in Cells :
          laserGrid = [pos |-> <<0, 0>>,
                       cells |-> [EmptyElevationCells EXCEPT ![c] = e]]
    /\ interpolatedGrid = [pos |-> <<0, 0>>, cells |-> EmptyElevationCells]
    /\ traversabilityGrid = [pos |-> <<0, 0>>, cells |-> EmptyTraversabilityCells]
    /\ lastBody2Odo = [t |-> <<0, 0, 0>>, yaw |-> 0]
    /\ lastLaser2Odo = Identity
    /\ boundarySize = 0
    /\ maxStepSize = DefaultMaxStepSize
    /\ op = ConstructedOp
    /\ accepted = NothingAccepted
    /\ nCalls = 0
    /\ conf = NoSearch
    /\ PlanIdle

setMaxStepSize(size) ==
    /\ op.name = "construct"
    /\ maxStepSize' = size
    /\ op' = [name |-> "setMaxStepSize", ret |-> FALSE, err |-> "none", args |-> <<size>>]
    /\ UNCHANGED <<planVars, laserGrid, interpolatedGrid, traversabilityGrid, lastBody2Odo,
                   lastLaser2Odo, boundarySize, accepted, nCalls>>

\* one height reaches an entry of the laser grid
AddHeight(c, h) ==
    /\ op.name # "computeNewMap"
    /\ nCalls < MaxMeasurements
    /\ nCalls' = nCalls + 1
    /\ laserGrid' = [laserGrid EXCEPT !.cells[c] = addHeightMeasurement(@, h)]
    /\ op' = [name |-> "addHeightMeasurement", ret |-> FALSE, err |-> "none", args |-> <<c, h>>]
    /\ UNCHANGED <<planVars, interpolatedGrid, traversabilityGrid, lastBody2Odo,
                   lastLaser2Odo, boundarySize, maxStepSize, accepted>>

computeNewMap ==
    /\ interpolatedGrid' = smoothElevationGrid(laserGrid)
    /\ traversabilityGrid' = updateTraversabilityGrid(interpolatedGrid', maxStepSize)
    /\ op' = [name |-> "computeNewMap", ret |-> FALSE, err |-> "none", args |-> <<>>]
    /\ UNCHANGED <<planVars, laserGrid, lastBody2Odo, lastLaser2Odo, boundarySize,
                   maxStepSize, accepted, nCalls>>

TerrainNext ==
    \/ \E size \in StepSizeSet : setMaxStepSize(size)
    \/ \E c \in Cells : \E h \in HeightSet : AddHeight(c, h)
    \/ computeNewMap

TerrainSpec == TerrainInit /\ [][TerrainNext]_vars

----------------------------------------------------------------------------
(* Region stamps *)

Unknown == {"UNCLASSIFIED", "UNKNOWN_OBSTACLE"}

\* the i-th offset visited by the loops of markUnknownInRadiusAs:
\* x and y run from -radiusGrid while they are < radiusGrid
radiusOffset(radiusGrid, i) ==
    <<((i - 1) \div (2 * radiusGrid)) - radiusGrid,
      ((i - 1) % (2 * radiusGrid)) - radiusGrid>>

\* distToRobot > radius
outsideCircle(off, radius) ==
    (off[1] * off[1] + off[2] * off[2]) * GridResolution * GridResolution
        > radius * radius

\* the loops of markUnknownInRadiusAs from the i-th offset on; st holds the
\* cells of both grids and the error thrown
RECURSIVE radiusLoop(_, _, _, _, _)
radiusLoop(st, gridp, radius, type, i) ==
    LET radiusGrid == radius \div GridResolution
        off == radiusOffset(radiusGrid, i)
        c == <<gridp[1] + off[1], gridp[2] + off[2]>>
    IN IF i > 4 * radiusGrid * radiusGrid THEN st
       ELSE IF outsideCircle(off, radius) THEN radiusLoop(st, gridp, radius, type, i + 1)
       ELSE IF ~inGrid(c[1], c[2]) THEN [st EXCEPT !.err = "AccessOutOfGrid"]
       ELSE IF st.tr[c] \in Unknown
       THEN radiusLoop(
                [tr |-> [st.tr EXCEPT ![c] = type],
                 laser |-> IF type = "TRAVERSABLE"
                           THEN [st.laser EXCEPT ![c] = addHeightMeasurement(@, @.median)]
                           ELSE st.laser,
                 err |-> "none"],
                gridp, radius, type, i + 1)
       ELSE radiusLoop(st, gridp, radius, type, i + 1)

RectStep == 30

\* the i-th sample of the loops of markUnknownInRectangeAs, in the pose's
\* frame: x from -width/2 while <= width/2, y from -height/2 while
\* <= height/2 + forwardOffset, in steps of RectStep (sizes are even)
rectSample(width, height, forwardOffset, i) ==
    LET ny == ((height + forwardOffset) \div RectStep) + 1
    IN <<((i - 1) \div ny) * RectStep - (width \div 2),
         ((i - 1) % ny) * RectStep - (height \div 2), 0>>

rectSampleCount(width, height, forwardOffset) ==
    ((width \div RectStep) + 1) * (((height + forwardOffset) \div RectStep) + 1)

RECURSIVE rectLoop(_, _, _, _, _, _, _, _)
rectLoop(st, lgrid, pose, width, height, forwardOffset, type, i) ==
    LET pw == transform(pose, rectSample(width, height, forwardOffset, i))
        pg == getGridPoint(lgrid, pw)
    IN IF i > rectSampleCount(width, height, forwardOffset) THEN st
       ELSE IF pg # <<>> /\ st.tr[pg] \in Unknown
       THEN rectLoop(
                [tr |-> [st.tr EXCEPT ![pg] = type],
                 laser |-> IF type = "TRAVERSABLE" /\ st.laser[pg].count = 0
                           THEN [st.laser EXCEPT ![pg] = addHeightMeasurement(@, 0)]
                           ELSE st.laser,
                 err |-> "none"],
                lgrid, pose, width, height, forwardOffset, type, i + 1)
       ELSE rectLoop(st, lgrid, pose, width, height, forwardOffset, type, i + 1)

----------------------------------------------------------------------------
(* The map generator *)

\* scans fed to one generator
MaxCalls == 3
\* calls made on one generator when the stamps are among them
MaxMapCalls == 2

BodyPoseSet ==
    {[t |-> <<0, 0, 0>>, yaw |-> 0], [t |-> <<30, 0, 0>>, yaw |-> 0],
     [t |-> <<30, 40, 0>>, yaw |-> 0], [t |-> <<60, 0, 0>>, yaw |-> 0],
     [t |-> <<200, 0, 0>>, yaw |-> 90]}

TiltSet == {0, 3, 6}

\* a beam on the right wheel, one in the inverted box of the left wheel, one
\* invalid beam and two beams that hit the ground
ScanSet ==
    {<< [p |-> <<-250, 0, 0>>, valid |-> TRUE], [p |-> <<100, 0, 200>>, valid |-> TRUE] >>,
     << [p |-> <<250, 0, 0>>, valid |-> TRUE], [p |-> <<0, 100, 0>>, valid |-> FALSE],
        [p |-> <<-100, 0, 0>>, valid |-> TRUE] >>}

\* a boundary other than the constructor's 0
BoundarySet == {50}

StampPoseSet ==
    {[t |-> <<0, 0, 0>>, yaw |-> 0], [t |-> <<0, -100, 0>>, yaw |-> 90],
     [t |-> <<200, 0, 0>>, yaw |-> 0]}

RadiusSet == {GridResolution, (3 * GridResolution) \div 2}

\* width, height and forward offset of the rectangles
RectSet == {<<60, 60, 0>>, <<60, 120, 60>>}

StampTypes == {"TRAVERSABLE", "OBSTACLE"}

\* what the members left unset by the constructor may hold
UninitialisedSet ==
    {[t |-> <<0, 0, 0>>, yaw |-> 0, tilt |-> 0], [t |-> <<30, 0, 0>>, yaw |-> 0, tilt |-> 3],
     [t |-> <<200, 0, 0>>, yaw |-> 90, tilt |-> 6]}

MapInit ==
    /\ laserGrid = [pos |-> <<0, 0>>, cells |-> EmptyElevationCells]
    /\ interpolatedGrid = [pos |-> <<0, 0>>, cells |-> EmptyElevationCells]
    /\ traversabilityGrid = [pos |-> <<0, 0>>, cells |-> EmptyTraversabilityCells]
    /\ \E u \in UninitialisedSet : lastBody2Odo = [t |-> u.t, yaw |-> u.yaw]
    /\ lastLaser2Odo \in UninitialisedSet
    /\ boundarySize = 0
    /\ maxStepSize = DefaultMaxStepSize
    /\ op = ConstructedOp
    /\ accepted = NothingAccepted
    /\ nCalls = 0
    /\ conf = NoSearch
    /\ PlanIdle

setBoundarySize(size) ==
    /\ op.name = "construct"
    /\ boundarySize' = size
    /\ op' = [name |-> "setBoundarySize", ret |-> FALSE, err |-> "none", args |-> <<size>>]
    /\ UNCHANGED <<planVars, laserGrid, interpolatedGrid, traversabilityGrid, lastBody2Odo,
                   lastLaser2Odo, maxStepSize, accepted, nCalls>>

addLaserScan(scan, body2Odo, tilt) ==
    LET laser2Odo == compose(body2Odo, tilt)
        ret == movedEnough(lastBody2Odo, lastLaser2Odo, body2Odo, laser2Odo)
        moved == moveGridIfRobotNearBoundary(laserGrid, body2Odo.t, boundarySize)
    IN /\ nCalls < MaxCalls
       /\ nCalls' = nCalls + 1
       /\ laserGrid' = addPoints(moved, filterLaserScan(scan, body2Odo))
       /\ lastBody2Odo' = referenceAfter(ret, lastBody2Odo, body2Odo)
       /\ lastLaser2Odo' = referenceAfter(ret, lastLaser2Odo, laser2Odo)
       /\ accepted' = IF ret THEN [valid |-> TRUE, body |-> body2Odo, laser |-> laser2Odo,
                                    refused |-> 0, gap |-> accepted.refused]
                      ELSE [accepted EXCEPT !.refused = @ + 1]
       /\ op' = [name |-> "addLaserScan", ret |-> ret, err |-> "none",
                 args |-> [body2Odo |-> body2Odo, tilt |-> tilt, scan |-> scan]]
       /\ UNCHANGED <<planVars, interpolatedGrid, traversabilityGrid, boundarySize, maxStepSize>>

markUnknownInRadiusAs(pose, radius, type) ==
    LET gridp == getGridPoint(traversabilityGrid, pose.t)
        st == IF gridp = <<>>
              THEN [tr |-> traversabilityGrid.cells, laser |-> laserGrid.cells,
                    err |-> "PoseOutOfGrid"]
              ELSE radiusLoop([tr |-> traversabilityGrid.cells,
                               laser |-> laserGrid.cells, err |-> "none"],
                              gridp, radius, type, 1)
    IN /\ nCalls < MaxMapCalls
       /\ nCalls' = nCalls + 1
       /\ traversabilityGrid' = [traversabilityGrid EXCEPT !.cells = st.tr]
       /\ laserGrid' = [laserGrid EXCEPT !.cells = st.laser]
       /\ op' = [name |-> "markUnknownInRadiusAs", ret |-> FALSE, err |-> st.err,
                 args |-> [pose |-> pose, radius |-> radius, type |-> type]]
       /\ UNCHANGED <<planVars, interpolatedGrid, lastBody2Odo, lastLaser2Odo, boundarySize,
                      maxStepSize, accepted>>

markUnknownInRectangeAs(pose, width, height, forwardOffset, type) ==
    LET st == rectLoop([tr |-> traversabilityGrid.cells, laser |-> laserGrid.cells,
                        err |-> "none"],
                       laserGrid, pose, width, height, forwardOffset, type, 1)
    IN /\ nCalls < MaxMapCalls
       /\ nCalls' = nCalls + 1
       /\ traversabilityGrid' = [traversabilityGrid EXCEPT !.cells = st.tr]
       /\ laserGrid' = [laserGrid EXCEPT !.cells = st.laser]
       /\ op' = [name |-> "markUnknownInRectangeAs", ret |-> FALSE, err |-> st.err,
                 args |-> [pose |-> pose, width |-> width, height |-> height,
                           forwardOffset |-> forwardOffset, type |-> type]]
       /\ UNCHANGED <<planVars, interpolatedGrid, lastBody2Odo, lastLaser2Odo, boundarySize,
                      maxStepSize, accepted>>

\* the scans alone: addLaserScan and the computeNewMap its caller runs
ScanNext ==
    \/ \E size \in BoundarySet : setBoundarySize(size)
    \/ \E scan \in ScanSet, body2Odo \in BodyPoseSet, tilt \in TiltSet :
          addLaserScan(scan, body2Odo, tilt)
    \/ computeNewMap

ScanSpec == MapInit /\ [][ScanNext]_vars

\* every operation of the generator
MapNext ==
    \/ \E size \in BoundarySet : setBoundarySize(size)
    \/ \E scan \in ScanSet, body2Odo \in BodyPoseSet, tilt \in TiltSet :
          nCalls < MaxMapCalls /\ addLaserScan(scan, body2Odo, tilt)
    \/ computeNewMap
    \/ \E pose \in StampPoseSet, radius \in RadiusSet, type \in StampTypes :
          markUnknownInRadiusAs(pose, radius, type)
    \/ \E pose \in StampPoseSet, r \in RectSet, type \in StampTypes :
          markUnknownInRectangeAs(pose, r[1], r[2], r[3], type)

MapSpec == MapInit /\ [][MapNext]_vars

----------------------------------------------------------------------------
(* Claims about classification and smoothing *)

\* the 8 neighbours of p that lie in the grid
Neighbours8(p) ==
    {q \in Cells : q # p /\ Abs(q[1] - p[1]) <= 1 /\ Abs(q[2] - p[2]) <= 1}

\* some neighbour among S with a usable height differs from height h by more than the step
StepAmong(S, grid, h) ==
    \E q \in S : /\ usable(grid[q])
                 /\ Abs(neighbourHeight(grid[q]) - h) > maxStepSize

Classified == op.name = "computeNewMap"

\* C1: after updateTraversabilityGrid a measured cell is TRAVERSABLE iff every
\* in-grid 8-neighbour with a usable height (median if measured, else minimum
\* if its maximum is not the no-data value) is within maxStepSize of the
\* cell's median, and OBSTACLE otherwise; never UNCLASSIFIED or UNKNOWN_OBSTACLE.
C1_MeasuredCellClass ==
    Classified =>
        \A p \in Cells :
            interpolatedGrid.cells[p].count > 0 =>
                traversabilityGrid.cells[p] =
                    IF StepAmong(Neighbours8(p), interpolatedGrid.cells,
                                 interpolatedGrid.cells[p].median)
                    THEN "OBSTACLE" ELSE "TRAVERSABLE"

\* a grid has been classified in which a measured cell next to a usable
\* height within the step is TRAVERSABLE and another measured cell is OBSTACLE
C1_Witness ==
    /\ Classified
    /\ \E p \in Cells :
          /\ interpolatedGrid.cells[p].count > 0
          /\ \E q \in Neighbours8(p) : usable(interpolatedGrid.cells[q])
          /\ traversabilityGrid.cells[p] = "TRAVERSABLE"
    /\ \E p \in Cells : /\ interpolatedGrid.cells[p].count > 0
                        /\ traversabilityGrid.cells[p] = "OBSTACLE"

\* the row and column brackets of the 3x3 window of p
RowBracket(source, p) ==
    /\ \E x \in -1 .. 1 : measured(source, p[1] + x, p[2] - 1)
    /\ \E x \in -1 .. 1 : measured(source, p[1] + x, p[2] + 1)

ColBracket(source, p) ==
    /\ \E y \in -1 .. 1 : measured(source, p[1] - 1, p[2] + y)
    /\ \E y \in -1 .. 1 : measured(source, p[1] + 1, p[2] + y)

\* C2: smoothElevationGrid interpolates an unmeasured source cell iff rows
\* y-1 and y+1 both hold a measured cell or columns x-1 and x+1 both do.
C2_InterpolatesIffBracketed ==
    Classified =>
        \A p \in Cells :
            laserGrid.cells[p].count = 0 =>
                (interpolatedGrid.cells[p].interpolated
                    <=> (RowBracket(laserGrid.cells, p) \/ ColBracket(laserGrid.cells, p)))

\* C8: after updateTraversabilityGrid an unmeasured cell is UNCLASSIFIED if
\* its maximum is the no-data value; otherwise UNKNOWN_OBSTACLE, unless one
\* of its 8 neighbours (the cell itself excluded) has a usable height more
\* than maxStepSize from the cell's maximum, and then OBSTACLE.
C8_UnmeasuredCellClass ==
    Classified =>
        \A p \in Cells :
            interpolatedGrid.cells[p].count = 0 =>
                traversabilityGrid.cells[p] =
                    IF interpolatedGrid.cells[p].max = NoData THEN "UNCLASSIFIED"
                    ELSE IF StepAmong(Neighbours8(p), interpolatedGrid.cells,
                                      interpolatedGrid.cells[p].max)
                    THEN "OBSTACLE" ELSE "UNKNOWN_OBSTACLE"

----------------------------------------------------------------------------
(* Claims about the scans and the region stamps *)

\* a call of the named operation is the step taken
Called(name) == op'.name = name /\ nCalls' = nCalls + 1

\* C3: addLaserScan returns true exactly when the body has moved at least
\* 0.05 m, or the laser Y axis has turned at least 5 degrees, since the last
\* call that returned true; the reference poses are set on the calls that
\* return true and unchanged on those that return false; and the surviving
\* points of the scan are in the elevation grid in both cases.
C3_ReferenceOnlyOnTrue ==
    [][Called("addLaserScan") =>
          LET body2Odo == op'.args.body2Odo
              laser2Odo == compose(op'.args.body2Odo, op'.args.tilt)
          IN /\ accepted.valid =>
                   (op'.ret <=>
                       \/ distanceSquared(accepted.body, body2Odo)
                              >= DistanceThreshold * DistanceThreshold
                       \/ laserChange(accepted.laser, laser2Odo) >= AngleThreshold)
             /\ op'.ret => lastBody2Odo' = body2Odo /\ lastLaser2Odo' = laser2Odo
             /\ ~op'.ret => lastBody2Odo' = lastBody2Odo /\ lastLaser2Odo' = lastLaser2Odo
             /\ \A i \in 1 .. Len(filterLaserScan(op'.args.scan, body2Odo)) :
                   LET pw == filterLaserScan(op'.args.scan, body2Odo)[i]
                       c == getGridPoint(laserGrid', pw)
                   IN c # <<>> =>
                         \E k \in 1 .. Len(laserGrid'.cells[c].heights) :
                             laserGrid'.cells[c].heights[k] = pw[3]
    ]_vars

\* the first scan was taken as reference, the second was refused and the
\* third, 60 mm from the origin, has just returned true; a cell holds the
\* points of two of the scans
C3_Witness ==
    /\ op.name = "addLaserScan"
    /\ op.ret
    /\ nCalls = 3
    /\ accepted.valid /\ accepted.gap = 1 /\ accepted.refused = 0
    /\ op.args.body2Odo.t = <<60, 0, 0>>
    /\ op.args.tilt = 3
    /\ lastBody2Odo = op.args.body2Odo
    /\ \E c \in Cells : laserGrid.cells[c].count >= 2

\* the traversability cell the pose of the stamp falls in
StampCell == getGridPoint(traversabilityGrid, op'.args.pose.t)

\* cell c is within the radius of the stamp around cell g
WithinRadius(c, g, radius) ==
    ((c[1] - g[1]) * (c[1] - g[1]) + (c[2] - g[2]) * (c[2] - g[2]))
        * GridResolution * GridResolution <= radius * radius

\* C4: a successful markUnknownInRadiusAs overwrites with the class exactly
\* the cells within the radius of the pose's cell, in every direction, that
\* held UNCLASSIFIED or UNKNOWN_OBSTACLE; every other cell is unchanged.
C4_RadiusStampsWholeDisc ==
    [][(Called("markUnknownInRadiusAs") /\ op'.err = "none") =>
          \A c \in Cells :
              traversabilityGrid'.cells[c] =
                  IF /\ WithinRadius(c, StampCell, op'.args.radius)
                     /\ traversabilityGrid.cells[c] \in Unknown
                  THEN op'.args.type
                  ELSE traversabilityGrid.cells[c]
    ]_vars

StampNames == {"markUnknownInRadiusAs", "markUnknownInRectangeAs"}

\* C5: every region stamp called with a pose outside the traversability
\* grid fails with an error.
C5_StampOutsideGridFails ==
    (op.name \in StampNames /\ getGridPoint(traversabilityGrid, op.args.pose.t) = <<>>)
        => op.err # "none"

\* the laser cell that covers the world location of traversability cell c
SameLocation(c) ==
    <<c[1] + FloorDiv(traversabilityGrid.pos[1] - laserGrid.pos[1], GridResolution),
      c[2] + FloorDiv(traversabilityGrid.pos[2] - laserGrid.pos[2], GridResolution)>>

\* C9: in every interleaving of the operations, a markUnknownInRadiusAs
\* that upgrades a traversability cell to TRAVERSABLE seeds the
\* pseudo-measurement into the elevation cell at the same world location
\* (the two grids map a world point to the same index when the stamp runs).
C9_SeedAtSameLocation ==
    [][(Called("markUnknownInRadiusAs") /\ op'.err = "none") =>
          \A c \in Cells :
              (/\ traversabilityGrid.cells[c] # "TRAVERSABLE"
               /\ traversabilityGrid'.cells[c] = "TRAVERSABLE")
                  => /\ SameLocation(c) \in Cells
                     /\ laserGrid'.cells[SameLocation(c)].count
                            = laserGrid.cells[SameLocation(c)].count + 1
    ]_vars

\* C10: a markUnknownInRadiusAs that fails leaves both grids as they were.
C10_FailedStampChangesNothing ==
    [][(Called("markUnknownInRadiusAs") /\ op'.err # "none") =>
          /\ traversabilityGrid' = traversabilityGrid
          /\ laserGrid' = laserGrid
    ]_vars

PlanInit ==
    /\ conf \in [maxTreeSize : MaxTreeSizeSet,
                 angularSampling : AngularSamplingSet,
                 discountFactor : DiscountSet,
                 directions : DirectionModes,
                 heuristic : [Poses -> HeuristicSet],
                 costForNode : [Poses \ {StartPose} -> CostSet]]
    /\ PlanIdle
    /\ laserGrid = [pos |-> <<0, 0>>, cells |-> EmptyElevationCells]
    /\ interpolatedGrid = [pos |-> <<0, 0>>, cells |-> EmptyElevationCells]
    /\ traversabilityGrid = [pos |-> <<0, 0>>, cells |-> EmptyTraversabilityCells]
    /\ lastBody2Odo = [t |-> <<0, 0, 0>>, yaw |-> 0]
    /\ lastLaser2Odo = Identity
    /\ boundarySize = 0
    /\ maxStepSize = DefaultMaxStepSize
    /\ op = ConstructedOp
    /\ accepted = NothingAccepted
    /\ nCalls = 0

\* getWaypoints up to its loop: the root is created and queued
getWaypoints ==
    /\ pc = "idle"
    /\ tree' = << [pose |-> StartPose, parent |-> 0, depth |-> 0, direction |-> 0,
                   cost |-> 0, heuristic |-> CostScale * conf.heuristic[StartPose],
                   isLeaf |-> TRUE] >>
    /\ expandCandidates' = <<1>>
    /\ popped' = <<>>
    /\ goals' = {}
    /\ result' = <<>>
    /\ pc' = "loop"
    /\ UNCHANGED <<mapVars, conf>>

\* one pass of the loop: the best candidate is popped and, unless it is
\* terminal, expanded
expandNode ==
    LET n == Head(expandCandidates)
        headings == getDirectionsFromIntervals(
                        getNextPossibleDirections(conf.directions, tree[n].pose),
                        conf.angularSampling)
        st == expandInto(conf, [nodes |-> tree, queue |-> Tail(expandCandidates)],
                         n, headings, 1)
    IN /\ pc = "loop"
       /\ loopCondition(expandCandidates, tree, conf.maxTreeSize)
       /\ popped' = Append(popped, heuristicCost(tree[n]))
       /\ IF isTerminalNode(tree[n].pose)
          THEN /\ goals' = goals \cup {n}
               /\ tree' = tree
               /\ expandCandidates' = Tail(expandCandidates)
          ELSE /\ goals' = goals
               /\ tree' = st.nodes
               /\ expandCandidates' = st.queue
       /\ UNCHANGED <<mapVars, conf, pc, result>>

\* the loop has ended: the trajectory to the best node is returned
returnWaypoints ==
    /\ pc = "loop"
    /\ ~loopCondition(expandCandidates, tree, conf.maxTreeSize)
    /\ result' = buildTrajectoryTo(tree, bestNode(tree, goals))
    /\ pc' = "done"
    /\ UNCHANGED <<mapVars, conf, tree, expandCandidates, popped, goals>>

PlanNext == getWaypoints \/ expandNode \/ returnWaypoints

PlanSpec == PlanInit /\ [][PlanNext]_vars

----------------------------------------------------------------------------
(* Claims about the search *)

\* the poses the search can step to from the pose
Successors(cf, pose) ==
    LET hs == getDirectionsFromIntervals(getNextPossibleDirections(cf.directions, pose),
                                         cf.angularSampling)
    IN {getProjectedPose(pose, hs[i]).pose :
           i \in {j \in 1 .. Len(hs) : getProjectedPose(pose, hs[j]).feasible}}

\* the discounted cost of the step from the pose to q, times CostScale
EdgeCost(cf, pose, q) == discountAt(cf.discountFactor, pose[1]) * cf.costForNode[q]

\* the least discounted cost from the pose to a terminal pose, times CostScale
RECURSIVE CostToGo(_, _)
CostToGo(cf, pose) ==
    IF isTerminalNode(pose) THEN 0
    ELSE LET via == {EdgeCost(cf, pose, q) + CostToGo(cf, q) : q \in Successors(cf, pose)}
         IN CHOOSE v \in via : \A w \in via : v <= w

\* the heuristic never overestimates the cost that remains
Admissible ==
    \A p \in Poses : CostScale * conf.heuristic[p] <= CostToGo(conf, p)

\* the heuristic is consistent with the discounted cost of every edge:
\* h(n) <= discountFactor ^ depth(n) * getCostForNode(c) + h(c)
Consistent ==
    \A p \in {q \in Poses : ~isTerminalNode(q)} : \A c \in Successors(conf, p) :
        CostScale * conf.heuristic[p] <= EdgeCost(conf, p, c) + CostScale * conf.heuristic[c]

PoppedInOrder == \A i \in 1 .. Len(popped) : \A j \in i .. Len(popped) : popped[i] <= popped[j]

\* C6: for any admissible heuristic, non-negative cost and discount factor
\* in (0, 1], every popped node's heuristic cost is at least that of every
\* node popped before it.
C6_AdmissiblePoppedInOrder == Admissible => PoppedInOrder

\* C6, amended: the same for any heuristic consistent with the discounted
\* edge costs.
C6_ConsistentPoppedInOrder == Consistent => PoppedInOrder

\* a run with a consistent heuristic and a discount below one has popped
\* nodes of at least two different heuristic costs and returned
C6_Witness ==
    /\ Consistent
    /\ conf.discountFactor = <<1, 2>>
    /\ pc = "done"
    /\ Len(popped) >= 3
    /\ popped[1] < popped[Len(popped)]

\* C7: the tree never holds more than maxTreeSize nodes, and the run ends
\* with the best result found so far when the budget is reached.
C7_TreeWithinBudget ==
    /\ Len(tree) <= conf.maxTreeSize
    /\ (pc = "done" /\ Len(tree) >= conf.maxTreeSize) => result # <<>>

====
